---- MODULE Spec2Model ----
(***************************************************************************)
(* VALVE VTT backend (src/backend/server.js): the session synchronisation  *)
(* engine.  One Node.js process, one thread: every WebSocket event and     *)
(* every timer callback runs to completion, so each is one action.         *)
(*                                                                         *)
(*   db         the Durable Store as held in memory  (let db, line 33)     *)
(*   disk       the contents of valve-data.json      (DB_FILE, line 12)    *)
(*   liveRooms  the Live Registry                    (line 85)             *)
(*   conns      the WebSocket objects and their _alive/_role/_roomCode/    *)
(*              _playerId fields (lines 291-295); _name is written but     *)
(*              only ever read by console.log and is left out.  A slot is  *)
(*              "free" (no socket), "open", "closing" (the socket has left *)
(*              the OPEN state, its 'close' event is pending) or "closed"  *)
(*              (the close handler has run and the Live Registry still     *)
(*              refers to the socket).  A closed socket that nothing       *)
(*              refers to is garbage: its slot is free for a later one.    *)
(*   now        Date.now()                                                 *)
(*   nextId     how many participant ids genId has produced                *)
(*   sent       the frames written by the last event, in order             *)
(*   issued, superseded, swept   history kept for the properties           *)
(***************************************************************************)
EXTENDS Integers, Sequences, FiniteSets, TLC

VARIABLES db, disk, liveRooms, conns, now, nextId, sent, issued, superseded, swept

vars == <<db, disk, liveRooms, conns, now, nextId, sent, issued, superseded, swept>>

-----------------------------------------------------------------------------
(* Bounds of the model *)

MaxConns == 2
MaxIds == 2
MaxPeriods == 1

(* Program constants *)

MaxAttempts == 20
TTL == 172800000

Conns == 1..MaxConns
NoConn == 0
NoId == 0
NoCode == "null"
NoRole == "null"

\* genCode (lines 88-93) draws 'VALVE-' + 4 characters; two of its outcomes.
Codes == {"VALVE-AAAA", "VALVE-BBBB"}

\* A roomCode field as a client may send it.  base is the code once trimmed
\* and upper-cased; lower: it has lower-case letters; pad: it has surrounding
\* blanks.  Missing stands for an absent or empty field.
Missing == [base |-> NoCode, lower |-> FALSE, pad |-> FALSE]
RawCodes ==
    {[base |-> b, lower |-> FALSE, pad |-> FALSE] : b \in Codes \cup {"VALVE-ZZZZ"}}
    \cup {[base |-> "VALVE-AAAA", lower |-> TRUE, pad |-> FALSE],
          [base |-> "VALVE-AAAA", lower |-> FALSE, pad |-> TRUE],
          Missing}

MasterNames == {"Ana"}
Names == {"Bo"}
NoName == ""
SessionNames == {"Campaign 1"}
Roles == {"master", "player", "spectator"}
EmptyFicha == "{}"
Fichas == {EmptyFicha, "{hp:10}"}
\* The instants at which the clock is read: the multiples of the retention
\* time and the millisecond after each.
Instants == {n * TTL + e : n \in 0..MaxPeriods, e \in {0, 1}}

-----------------------------------------------------------------------------
(* Helpers *)

\* String.prototype.toUpperCase and String.prototype.trim on a roomCode.
toUpperCase(raw) == [raw EXCEPT !.lower = FALSE]
trim(raw) == [raw EXCEPT !.pad = FALSE]

\* The property key a (processed) roomCode string selects in db.rooms or
\* liveRooms: a string that still has lower-case letters or blanks is a
\* different key from every code genCode produces.
Key(raw) == IF raw.lower \/ raw.pad THEN "other" ELSE raw.base

\* ws.readyState === WebSocket.OPEN
IsOpen(c) == c # NoConn /\ conns[c].state = "open"

Frame(to, msg) == [to |-> to, msg |-> msg]

\* send with the readyState test of line 100 inverted: nothing reaches an
\* open socket.
sendMut(c, msg) == IF IsOpen(c) THEN <<>> ELSE <<Frame(c, msg)>>

\* send (lines 99-103): writes only to an open socket.
send(c, msg) == IF IsOpen(c) THEN <<Frame(c, msg)>> ELSE <<>>

\* The ids of a players object in insertion order: ids are handed out in
\* increasing order and every players object is filled in that order.
RECURSIVE IdSeq(_)
IdSeq(S) ==
    IF S = {} THEN <<>>
    ELSE LET m == CHOOSE x \in S : \A y \in S : x <= y
         IN <<m>> \o IdSeq(S \ {m})

RECURSIVE Concat(_)
Concat(ss) == IF ss = <<>> THEN <<>> ELSE Head(ss) \o Concat(Tail(ss))

\* broadcastRoom (lines 105-117), exclude = null: the master socket first,
\* then every participant's socket, each only if open.  live and cs are the
\* registry and the sockets at the time of the call.
broadcastRoomIn(live, cs, code, msg) ==
    IF code \notin DOMAIN live THEN <<>>
    ELSE LET room == live[code]
             open(c) == c # NoConn /\ cs[c].state = "open"
             ids == IdSeq(DOMAIN room.players)
         IN (IF open(room.masterWs) THEN <<Frame(room.masterWs, msg)>> ELSE <<>>)
            \o Concat([i \in 1..Len(ids) |->
                         IF open(room.players[ids[i]].ws)
                         THEN <<Frame(room.players[ids[i]].ws, msg)>>
                         ELSE <<>>])

\* playersSnapshot that lists the participants with an open socket only.
playersSnapshotInMut(live, cs, code) ==
    IF code \notin DOMAIN live THEN [x \in {} |-> x]
    ELSE LET room == live[code]
             on == {id \in DOMAIN room.players :
                      room.players[id].ws # NoConn
                      /\ cs[room.players[id].ws].state = "open"}
         IN [id \in on |-> [id |-> id, name |-> room.players[id].name, online |-> TRUE]]

\* playersSnapshot (lines 119-127)
playersSnapshotIn(live, cs, code) ==
    IF code \notin DOMAIN live THEN [x \in {} |-> x]
    ELSE LET room == live[code]
         IN [id \in DOMAIN room.players |->
               [id |-> id, name |-> room.players[id].name,
                online |-> room.players[id].ws # NoConn
                           /\ cs[room.players[id].ws].state = "open"]]

PlayersUpdate(live, cs, code) ==
    [type |-> "players_update", players |-> playersSnapshotIn(live, cs, code)]

\* The retry loop with its test left out: the first code drawn is taken.
genCodeRunsMut(rooms, attempts) == {<<c, attempts + 1>> : c \in Codes}

\* The ways the retry loop of create_room (lines 138-140) can end, given that
\* it has drawn `attempts` codes so far: the pairs <<code, attempts>> it can
\* leave the loop with.
RECURSIVE genCodeRuns(_, _)
genCodeRuns(rooms, attempts) ==
    LET a == attempts + 1
    IN {<<c, a>> : c \in {d \in Codes : ~(d \in DOMAIN rooms /\ a < MaxAttempts)}}
       \cup (IF (\E c \in Codes : c \in DOMAIN rooms) /\ a < MaxAttempts
             THEN genCodeRuns(rooms, a) ELSE {})

\* The codes the retry loop can end with.
genCodeLoop(rooms, attempts) == {p[1] : p \in genCodeRuns(rooms, attempts)}

\* genId (lines 95-97): the time in base 36 followed by five random base-36
\* digits.  Successive results are taken to differ (the generator's design
\* assumption); the n-th id produced is n.
genId == nextId + 1

\* saveDB with the write left out: the file keeps its contents.
saveDBMut(data) == disk

\* saveDB (lines 26-30): the whole store is written to the file.
saveDB(data) == data

Empty == [x \in {} |-> x]
\* An assignment that replaces the object by one holding the new key only.
PutMut(f, k, v) == [x \in {k} |-> v]

Put(f, k, v) == [x \in DOMAIN f \cup {k} |-> IF x = k THEN v ELSE f[x]]
Drop(f, S) == [x \in DOMAIN f \ S |-> f[x]]

-----------------------------------------------------------------------------
(* Initial state: no data file, no connection *)

FreeConn == [state |-> "free", alive |-> FALSE, role |-> NoRole,
             roomCode |-> NoCode, playerId |-> NoId]

\* Some slot of the registry `live` refers to socket c.
Referenced(c, live) ==
    \E code \in DOMAIN live :
        \/ live[code].masterWs = c
        \/ \E id \in DOMAIN live[code].players : live[code].players[id].ws = c

\* The sockets cs once every closed socket that the registry `live` does not
\* refer to is dropped.
Release(cs, live) ==
    [c \in Conns |->
       IF cs[c].state = "closed" /\ ~Referenced(c, live) THEN FreeConn ELSE cs[c]]

Init ==
    /\ db = Empty
    /\ disk = Empty
    /\ liveRooms = Empty
    /\ conns = [c \in Conns |-> FreeConn]
    /\ now = 0
    /\ nextId = 0
    /\ sent = <<>>
    /\ issued = Empty
    /\ superseded = {}
    /\ swept = {}

-----------------------------------------------------------------------------
(* History kept for the properties *)

\* issued[id]: the room that a room_joined message handed participant id
\* `id` out for.
IssueTo(code, id) == Put(issued, id, code)

\* The ids issued for a room are forgotten when the room is destroyed.
Forget(codes) ==
    [id \in {i \in DOMAIN issued : issued[i] \notin codes} |-> issued[id]]

\* swept: the codes whose room the sweeper has deleted and create_room has
\* not assigned again since.

\* superseded: the pairs <<connection, code>> whose connection was the room's
\* master reference when a reconnect{role: master} of another connection
\* replaced it.  A pair lasts until its connection binds itself again or
\* closes, or the room is destroyed.
Rebound(c) == {p \in superseded : p[1] # c}

Supersede(c, code) ==
    LET old == IF code \in DOMAIN liveRooms THEN liveRooms[code].masterWs ELSE NoConn
    IN IF old # NoConn /\ old # c THEN Rebound(c) \cup {<<old, code>>} ELSE Rebound(c)

-----------------------------------------------------------------------------
(* wss.on('connection') (lines 290-304) *)

Connect(c) ==
    /\ conns[c].state = "free"
    /\ \A d \in Conns : d < c => conns[d].state # "free"
    /\ conns' = [conns EXCEPT ![c] = [state |-> "open", alive |-> TRUE,
                                      role |-> NoRole, roomCode |-> NoCode,
                                      playerId |-> NoId]]
    /\ sent' = <<>>
    /\ UNCHANGED <<db, disk, liveRooms, now, nextId, issued, superseded, swept>>

(* handleMsg, case 'create_room' (lines 134-155) *)

CreateRoom(c, masterName, sessionName, code) ==
    /\ IsOpen(c)
    /\ IF masterName = NoName \/ sessionName = NoName
       THEN /\ sent' = <<>>
            /\ UNCHANGED <<db, disk, liveRooms, conns, now, nextId, issued, superseded, swept>>
       ELSE /\ code \in genCodeLoop(db, 0)
            /\ db' = Put(db, code, [masterName |-> masterName,
                                    sessionName |-> sessionName,
                                    createdAt |-> now, players |-> Empty])
            /\ disk' = saveDB(db')
            /\ liveRooms' = Put(liveRooms, code, [masterWs |-> c, players |-> Empty])
            /\ conns' = Release([conns EXCEPT ![c].role = "master",
                                              ![c].roomCode = code], liveRooms')
            /\ sent' = send(c, [type |-> "room_created", roomCode |-> code,
                                sessionName |-> sessionName,
                                masterName |-> masterName])
            /\ issued' = Forget({code})
            /\ superseded' = {p \in Rebound(c) : p[2] # code}
            /\ swept' = swept \ {code}
            /\ UNCHANGED <<now, nextId>>

(* handleMsg, case 'join_room' (lines 158-195) *)

\* lines 171-177: a room without a live entry gets one, with the participants
\* of the durable store and no socket attached.
SeedLive(live, rooms, code) ==
    IF code \in DOMAIN live THEN live
    ELSE Put(live, code,
             [masterWs |-> NoConn,
              players |-> [id \in DOMAIN rooms[code].players |->
                             [ws |-> NoConn, name |-> rooms[code].players[id].name,
                              fichaData |-> rooms[code].players[id].fichaData]]])

JoinRoom(c, playerName, roomCode) ==
    /\ IsOpen(c)
    /\ LET code == Key(toUpperCase(trim(roomCode)))
           playerId == genId
       IN IF playerName = NoName \/ roomCode = Missing
          THEN /\ sent' = <<>>
               /\ UNCHANGED <<db, disk, liveRooms, conns, now, nextId, issued, superseded, swept>>
          ELSE IF code \notin DOMAIN db
          THEN /\ sent' = send(c, [type |-> "room_error"])
               /\ UNCHANGED <<db, disk, liveRooms, conns, now, nextId, issued, superseded, swept>>
          ELSE /\ nextId < MaxIds
               /\ LET seeded == SeedLive(liveRooms, db, code)
                  IN liveRooms' = [seeded EXCEPT ![code].players =
                                     Put(@, playerId, [ws |-> c, name |-> playerName,
                                                       fichaData |-> EmptyFicha])]
               /\ conns' = [conns EXCEPT ![c].role = "player", ![c].roomCode = code,
                                         ![c].playerId = playerId]
               /\ db' = [db EXCEPT ![code].players =
                            Put(@, playerId, [name |-> playerName,
                                              fichaData |-> EmptyFicha])]
               /\ disk' = saveDB(db')
               /\ nextId' = nextId + 1
               /\ sent' = send(c, [type |-> "room_joined", roomCode |-> code,
                                   sessionName |-> db[code].sessionName,
                                   playerId |-> playerId])
                          \o broadcastRoomIn(liveRooms', conns', code,
                                             PlayersUpdate(liveRooms', conns', code))
               /\ issued' = IssueTo(code, playerId)
               /\ superseded' = Rebound(c)
               /\ UNCHANGED <<now, swept>>

(* handleMsg, case 'reconnect' (lines 198-223) *)

\* line 204: a room without a live entry gets an empty one.
EnsureLive(live, code) ==
    IF code \in DOMAIN live THEN live
    ELSE Put(live, code, [masterWs |-> NoConn, players |-> Empty])

Reconnect(c, role, name, roomCode) ==
    /\ IsOpen(c)
    /\ LET code == Key(toUpperCase(roomCode))
           playerId == genId
       IN IF roomCode = Missing \/ code \notin DOMAIN db
          THEN /\ sent' = <<>>
               /\ UNCHANGED <<db, disk, liveRooms, conns, now, nextId, issued, superseded, swept>>
          ELSE IF role = "master"
          THEN /\ liveRooms' = [EnsureLive(liveRooms, code) EXCEPT ![code].masterWs = c]
               /\ conns' = Release([conns EXCEPT ![c].roomCode = code,
                                                 ![c].role = role], liveRooms')
               /\ sent' = send(c, [type |-> "room_created", roomCode |-> code,
                                   sessionName |-> db[code].sessionName,
                                   masterName |-> name])
                          \o send(c, PlayersUpdate(liveRooms', conns', code))
               /\ superseded' = Supersede(c, code)
               /\ UNCHANGED <<db, disk, now, nextId, issued, swept>>
          ELSE /\ nextId < MaxIds
               /\ liveRooms' = [EnsureLive(liveRooms, code) EXCEPT ![code].players =
                                  Put(@, playerId, [ws |-> c, name |-> name,
                                                    fichaData |-> EmptyFicha])]
               /\ conns' = [conns EXCEPT ![c].roomCode = code, ![c].role = role,
                                         ![c].playerId = playerId]
               /\ nextId' = nextId + 1
               /\ sent' = send(c, [type |-> "room_joined", roomCode |-> code,
                                   sessionName |-> db[code].sessionName,
                                   playerId |-> playerId])
                          \o broadcastRoomIn(liveRooms', conns', code,
                                             PlayersUpdate(liveRooms', conns', code))
               /\ issued' = IssueTo(code, playerId)
               /\ superseded' = Rebound(c)
               /\ UNCHANGED <<db, disk, now, swept>>

\* ficha_data that stores the payload under every participant of the room
\* instead of under ws._playerId only.
FichaDataMut(c, fichaData) ==
    /\ IsOpen(c)
    /\ LET code == conns[c].roomCode
           id == conns[c].playerId
       IN IF conns[c].role # "player" \/ code = NoCode \/ code \notin DOMAIN liveRooms
          THEN /\ sent' = <<>>
               /\ UNCHANGED <<db, disk, liveRooms, conns, now, nextId, issued, superseded, swept>>
          ELSE /\ liveRooms' =
                    [liveRooms EXCEPT ![code].players =
                       [j \in DOMAIN @ |-> [@[j] EXCEPT !.fichaData = fichaData]]]
               /\ db' = IF code \in DOMAIN db
                        THEN [db EXCEPT ![code].players =
                                [j \in DOMAIN @ |-> [@[j] EXCEPT !.fichaData = fichaData]]]
                        ELSE db
               /\ sent' = IF IsOpen(liveRooms[code].masterWs)
                          THEN send(liveRooms[code].masterWs,
                                    [type |-> "ficha_update", playerId |-> id,
                                     fichaData |-> fichaData])
                          ELSE <<>>
               /\ UNCHANGED <<disk, conns, now, nextId, issued, superseded, swept>>

(* handleMsg, case 'ficha_data' (lines 226-248) *)

FichaData(c, fichaData) ==
    /\ IsOpen(c)
    /\ LET code == conns[c].roomCode
           id == conns[c].playerId
       IN IF conns[c].role # "player" \/ code = NoCode \/ code \notin DOMAIN liveRooms
          THEN /\ sent' = <<>>
               /\ UNCHANGED <<db, disk, liveRooms, conns, now, nextId, issued, superseded, swept>>
          ELSE /\ liveRooms' =
                    IF id \in DOMAIN liveRooms[code].players
                    THEN [liveRooms EXCEPT ![code].players[id].fichaData = fichaData]
                    ELSE liveRooms
               /\ db' = IF code \in DOMAIN db /\ id \in DOMAIN db[code].players
                        THEN [db EXCEPT ![code].players[id].fichaData = fichaData]
                        ELSE db
               /\ sent' = IF IsOpen(liveRooms[code].masterWs)
                          THEN send(liveRooms[code].masterWs,
                                    [type |-> "ficha_update", playerId |-> id,
                                     fichaData |-> fichaData])
                          ELSE <<>>
               /\ UNCHANGED <<disk, conns, now, nextId, issued, superseded, swept>>

(* handleMsg, case 'request_ficha' (lines 251-267) *)

\* cached without the durable lookup: always the empty payload.
cachedMut(code, playerId) == EmptyFicha

\* line 263: the durable payload of a participant, {} if there is none.
cached(code, playerId) ==
    IF code \in DOMAIN db /\ playerId \in DOMAIN db[code].players
    THEN db[code].players[playerId].fichaData
    ELSE EmptyFicha

RequestFicha(c, playerId) ==
    /\ IsOpen(c)
    /\ LET code == conns[c].roomCode
       IN IF conns[c].role # "master" \/ code = NoCode \/ code \notin DOMAIN liveRooms
          THEN sent' = <<>>
          ELSE IF playerId \in DOMAIN liveRooms[code].players
                  /\ IsOpen(liveRooms[code].players[playerId].ws)
          THEN sent' = send(liveRooms[code].players[playerId].ws,
                            [type |-> "send_ficha"])
          ELSE sent' = send(c, [type |-> "ficha_update", playerId |-> playerId,
                                fichaData |-> cached(code, playerId)])
    /\ UNCHANGED <<db, disk, liveRooms, conns, now, nextId, issued, superseded, swept>>

(* handleMsg, case 'pong' (line 269) and ws.on('pong') (line 297) *)

Pong(c) ==
    /\ IsOpen(c)
    /\ conns' = [conns EXCEPT ![c].alive = TRUE]
    /\ sent' = <<>>
    /\ UNCHANGED <<db, disk, liveRooms, now, nextId, issued, superseded, swept>>

\* A message of unknown type answered by closing the socket.
OtherMsgMut(c) ==
    /\ IsOpen(c)
    /\ conns' = [conns EXCEPT ![c].state = "closing"]
    /\ sent' = <<>>
    /\ UNCHANGED <<db, disk, liveRooms, now, nextId, issued, superseded, swept>>

(* handleMsg with a type that no case matches (lines 131, 270) *)

OtherMsg(c) ==
    /\ IsOpen(c)
    /\ sent' = <<>>
    /\ UNCHANGED <<db, disk, liveRooms, conns, now, nextId, issued, superseded, swept>>

(* The socket of a connection leaves the OPEN state: the peer closes, the  *)
(* transport fails, or terminate() was called.  Its 'close' event follows. *)

SocketClose(c) ==
    /\ IsOpen(c)
    /\ conns' = [conns EXCEPT ![c].state = "closing"]
    /\ sent' = <<>>
    /\ UNCHANGED <<db, disk, liveRooms, now, nextId, issued, superseded, swept>>

(* ws.on('close') -> handleDisconnect (lines 273-287, 302) *)

HandleDisconnect(c) ==
    /\ conns[c].state = "closing"
    /\ LET code == conns[c].roomCode
           id == conns[c].playerId
           closedc == [conns EXCEPT ![c].state = "closed"]
       IN IF code = NoCode \/ code \notin DOMAIN liveRooms
          THEN /\ sent' = <<>>
               /\ UNCHANGED liveRooms
          ELSE IF conns[c].role = "master"
          THEN /\ liveRooms' = [liveRooms EXCEPT ![code].masterWs = NoConn]
               /\ sent' = broadcastRoomIn(liveRooms', closedc, code,
                                          [type |-> "master_left"])
          ELSE IF conns[c].role = "player" /\ id # NoId
          THEN /\ liveRooms' =
                    IF id \in DOMAIN liveRooms[code].players
                    THEN [liveRooms EXCEPT ![code].players[id].ws = NoConn]
                    ELSE liveRooms
               /\ sent' = broadcastRoomIn(liveRooms', closedc, code,
                                          PlayersUpdate(liveRooms', closedc, code))
          ELSE /\ sent' = <<>>
               /\ UNCHANGED liveRooms
    /\ conns' = Release([conns EXCEPT ![c].state = "closed"], liveRooms')
    /\ superseded' = Rebound(c)
    /\ UNCHANGED <<db, disk, now, nextId, issued, swept>>

\* The keepalive callback without the terminate() of line 309.
KeepaliveMut ==
    /\ conns' = [c \in Conns |->
                   IF conns[c].state \notin {"open", "closing"} THEN conns[c]
                   ELSE [conns[c] EXCEPT !.alive = FALSE]]
    /\ sent' = <<>>
    /\ UNCHANGED <<db, disk, liveRooms, now, nextId, issued, superseded, swept>>

(* Keepalive timer (lines 307-313) over wss.clients, the sockets whose     *)
(* 'close' event has not fired yet.                                        *)

Keepalive ==
    /\ conns' = [c \in Conns |->
                   IF conns[c].state \notin {"open", "closing"} THEN conns[c]
                   ELSE IF ~conns[c].alive
                   THEN [conns[c] EXCEPT !.state = "closing"]
                   ELSE [conns[c] EXCEPT !.alive = FALSE]]
    /\ sent' = <<>>
    /\ UNCHANGED <<db, disk, liveRooms, now, nextId, issued, superseded, swept>>

(* Retention sweeper (lines 316-327) *)

\* The comparison of line 320 made non-strict: a room of exactly the
\* retention time counts as old.
ExpiredMut(rooms, t) == {code \in DOMAIN rooms : rooms[code].createdAt <= t - TTL}

\* line 320: the rooms the sweeper deletes at time t.
Expired(rooms, t) == {code \in DOMAIN rooms : rooms[code].createdAt < t - TTL}

Sweep ==
    LET old == Expired(db, now)
    IN /\ swept' = swept \cup old
       /\ db' = Drop(db, old)
       /\ liveRooms' = Drop(liveRooms, old)
       /\ disk' = IF old # {} THEN saveDB(db') ELSE disk
       /\ sent' = <<>>
       /\ conns' = Release(conns, liveRooms')
       /\ issued' = Forget(old)
       /\ superseded' = {p \in superseded : p[2] \notin old}
       /\ UNCHANGED <<now, nextId>>

(* Periodic flush (line 36) *)

Flush ==
    /\ disk' = saveDB(db)
    /\ sent' = <<>>
    /\ UNCHANGED <<db, liveRooms, conns, now, nextId, issued, superseded, swept>>

(* Date.now() advances *)

Tick(t) ==
    /\ t > now
    /\ now' = t
    /\ sent' = <<>>
    /\ UNCHANGED <<db, disk, liveRooms, conns, nextId, issued, superseded, swept>>

(* The process stops and is started again: every socket is gone, the Live  *)
(* Registry is empty (line 85) and db is loaded from the file (line 33).   *)

loadDB(file) == file

Restart ==
    /\ db' = loadDB(disk)
    /\ liveRooms' = Empty
    /\ conns' = [c \in Conns |-> FreeConn]
    /\ sent' = <<>>
    /\ superseded' = {}
    /\ UNCHANGED <<disk, now, nextId, issued, swept>>

-----------------------------------------------------------------------------

(* The session engine: the events of the connections of one room code, with *)
(* restarts and flushes.  genCode is followed where it returns VALVE-AAAA.  *)

Next ==
    \/ \E c \in Conns : Connect(c)
    \/ \E c \in Conns, m \in MasterNames \cup {NoName}, s \in SessionNames \cup {NoName} :
          CreateRoom(c, m, s, "VALVE-AAAA")
    \/ \E c \in Conns, n \in Names \cup {NoName}, r \in RawCodes : JoinRoom(c, n, r)
    \/ \E c \in Conns, role \in Roles, n \in MasterNames, r \in RawCodes :
          Reconnect(c, role, n, r)
    \/ \E c \in Conns, f \in Fichas : FichaData(c, f)
    \/ \E c \in Conns, id \in 1..MaxIds : RequestFicha(c, id)
    \/ \E c \in Conns : OtherMsg(c)
    \/ \E c \in Conns : SocketClose(c)
    \/ \E c \in Conns : HandleDisconnect(c)
    \/ Flush
    \/ Restart

Spec == Init /\ [][Next]_vars

(* Rooms and retention: one connection creates and joins rooms of both      *)
(* codes while the clock advances and the sweeper runs.                     *)

NextSweep ==
    \/ Connect(1)
    \/ \E m \in MasterNames, s \in SessionNames, code \in Codes :
          CreateRoom(1, m, s, code)
    \/ \E n \in Names, r \in RawCodes : JoinRoom(1, n, r)
    \/ SocketClose(1)
    \/ HandleDisconnect(1)
    \/ \E t \in Instants : Tick(t)
    \/ Sweep
    \/ Restart

SpecSweep == Init /\ [][NextSweep]_vars

(* The connection monitor *)

NextMonitor ==
    \/ \E c \in Conns : Connect(c)
    \/ \E c \in Conns, m \in MasterNames, s \in SessionNames :
          CreateRoom(c, m, s, "VALVE-AAAA")
    \/ \E c \in Conns, n \in Names, r \in RawCodes : JoinRoom(c, n, r)
    \/ \E c \in Conns : Pong(c)
    \/ \E c \in Conns : SocketClose(c)
    \/ \E c \in Conns : HandleDisconnect(c)
    \/ Keepalive

SpecMonitor == Init /\ [][NextMonitor]_vars

\* The timer of line 313 keeps firing and the 'close' event of a socket that
\* has left the OPEN state is delivered.
SpecMonitorFair ==
    /\ SpecMonitor
    /\ WF_vars(Keepalive)
    /\ \A c \in Conns : WF_vars(HandleDisconnect(c))

-----------------------------------------------------------------------------
(* Properties *)

Types(frames) == {frames[i].msg.type : i \in 1..Len(frames)}
FramesTo(frames, c) == {frames[i].msg : i \in {j \in 1..Len(frames) : frames[j].to = c}}
PlayerUpdates(frames) ==
    {frames[i] : i \in {j \in 1..Len(frames) : frames[j].msg.type = "players_update"}}

\* C1: every room with a Live Registry entry has a live participant entry for
\* every participant id the Durable Store holds for it, and every
\* players_update sent to a connection of the room lists every durable
\* participant of the room (also after a restart followed by a join_room or a
\* reconnect).
C1_LiveCoversDurable ==
    /\ \A code \in DOMAIN liveRooms \cap DOMAIN db :
          DOMAIN db[code].players \subseteq DOMAIN liveRooms[code].players
    /\ \A f \in PlayerUpdates(sent) :
          LET code == conns[f.to].roomCode
          IN code \in DOMAIN db =>
                DOMAIN db[code].players \subseteq DOMAIN f.msg.players

\* C2: when a connection that a reconnect{role: master} of another connection
\* has superseded as the room's master closes, the room's master reference is
\* left as it was and no master_left is sent.
C2_SupersededMasterInert ==
    [][\A c \in Conns, code \in Codes :
          (/\ <<c, code>> \in superseded
           /\ code \in DOMAIN liveRooms
           /\ liveRooms[code].masterWs \notin {NoConn, c}
           /\ HandleDisconnect(c))
          => /\ code \in DOMAIN liveRooms'
             /\ liveRooms'[code].masterWs = liveRooms[code].masterWs
             /\ "master_left" \notin Types(sent')]_vars

\* C3: a request_ficha{playerId: P} of the room's master, for an id P handed
\* out in a room_joined whose connection has sent payload X last and has
\* closed, is answered with ficha_update{playerId: P, fichaData: X}.  (The
\* live entry of P holds the last payload P's connection sent; it has no
\* socket once that connection has closed.)
C3_ClosedPlayerFichaServed ==
    [][\A c \in Conns, id \in 1..MaxIds :
          LET code == conns[c].roomCode
          IN (/\ RequestFicha(c, id)
              /\ conns[c].role = "master"
              /\ code \in DOMAIN liveRooms
              /\ liveRooms[code].masterWs = c
              /\ id \in DOMAIN issued
              /\ issued[id] = code
              /\ id \in DOMAIN liveRooms[code].players
              /\ liveRooms[code].players[id].ws = NoConn
              /\ liveRooms[code].players[id].fichaData # EmptyFicha)
             => sent' = <<Frame(c, [type |-> "ficha_update", playerId |-> id,
                                    fichaData |->
                                      liveRooms[code].players[id].fichaData])>>]_vars

\* C4: every participant id handed out in a room_joined has a participant
\* record in the Durable Store for its room, until the room is destroyed.
C4_IssuedIdsDurable ==
    \A id \in DOMAIN issued :
        /\ issued[id] \in DOMAIN db
        /\ id \in DOMAIN db[issued[id]].players

\* The open connections bound as player to a participant of the live room.
PlayerConns(code) ==
    {d \in Conns : /\ conns[d].state = "open"
                   /\ conns[d].role = "player"
                   /\ conns[d].roomCode = code
                   /\ conns[d].playerId \in DOMAIN liveRooms[code].players}

\* The open connections bound as master to the room that no later
\* reconnect{role: master} has superseded.
MasterConns(code) ==
    {m \in Conns : /\ conns[m].state = "open"
                   /\ conns[m].role = "master"
                   /\ conns[m].roomCode = code
                   /\ <<m, code>> \notin superseded}

\* C5: when the connection a room refers to as its master closes, the room's
\* master reference becomes absent and every open player connection of the
\* room receives master_left; and every ficha_data of an active player of a
\* room is forwarded as ficha_update to the connection that has (re)connected
\* as the room's master and has not been superseded.
C5_MasterLeftAndRestored ==
    [][/\ \A c \in Conns, code \in Codes :
             (/\ code \in DOMAIN liveRooms
              /\ liveRooms[code].masterWs = c
              /\ HandleDisconnect(c))
             => /\ code \in DOMAIN liveRooms'
                /\ liveRooms'[code].masterWs = NoConn
                /\ \A d \in PlayerConns(code) :
                      [type |-> "master_left"] \in FramesTo(sent', d)
       /\ \A c \in Conns, f \in Fichas :
             LET code == conns[c].roomCode
             IN (/\ conns[c].role = "player"
                 /\ code \in DOMAIN liveRooms
                 /\ FichaData(c, f))
                => \A m \in MasterConns(code) :
                      [type |-> "ficha_update", playerId |-> conns[c].playerId,
                       fichaData |-> f] \in FramesTo(sent', m)]_vars

\* C6: a join_room on a known room allocates an id that is no participant id
\* of the room yet (whatever the name), changes no existing participant
\* entry, and the players_update it broadcasts lists the new participant and
\* every participant the room already had.
C6_JoinAddsDistinctParticipant ==
    [][\A c \in Conns, n \in Names, r \in RawCodes :
          LET code == r.base
              id == conns'[c].playerId
              durable == IF code \in DOMAIN db THEN DOMAIN db[code].players ELSE {}
              live == IF code \in DOMAIN liveRooms
                      THEN DOMAIN liveRooms[code].players ELSE {}
          IN (r # Missing /\ code \in DOMAIN db /\ JoinRoom(c, n, r))
             => /\ id \notin durable \cup live
                /\ \A j \in durable : db'[code].players[j] = db[code].players[j]
                /\ \A j \in live :
                      liveRooms'[code].players[j] = liveRooms[code].players[j]
                /\ PlayerUpdates(sent') # {}
                /\ \A u \in PlayerUpdates(sent') :
                      {id} \cup durable \cup live \subseteq DOMAIN u.msg.players]_vars

\* C7: a join_room whose trimmed, upper-cased room code has no Durable Store
\* entry yields exactly one frame, a room_error to the sender, and leaves the
\* Durable Store, the file, the Live Registry and every connection unchanged.
C7_JoinUnknownRoomError ==
    [][\A c \in Conns, n \in Names, r \in RawCodes :
          (r # Missing /\ r.base \notin DOMAIN db /\ JoinRoom(c, n, r))
          => /\ sent' = <<Frame(c, [type |-> "room_error"])>>
             /\ UNCHANGED <<db, disk, liveRooms, conns, nextId>>]_vars

\* A join_room has just been refused with room_error.
C7_Witness ==
    \E c \in Conns : /\ sent = <<Frame(c, [type |-> "room_error"])>>
                     /\ conns[c].role = NoRole

\* C8: a run of the sweeper at time now removes every room with
\* now - createdAt > 48h from the Durable Store and the Live Registry and
\* leaves every other room as it was in both; a join_room on a swept code
\* yields room_error.
C8_SweepRemovesExpiredOnly ==
    [][/\ Sweep =>
             \A code \in DOMAIN db :
                IF now - db[code].createdAt > 48 * 3600 * 1000
                THEN code \notin DOMAIN db' /\ code \notin DOMAIN liveRooms'
                ELSE /\ code \in DOMAIN db' /\ db'[code] = db[code]
                     /\ (code \in DOMAIN liveRooms) = (code \in DOMAIN liveRooms')
                     /\ code \in DOMAIN liveRooms =>
                           liveRooms'[code] = liveRooms[code]
       /\ \A c \in Conns, n \in Names, r \in RawCodes :
             (r.base \in swept /\ JoinRoom(c, n, r))
             => /\ sent' = <<Frame(c, [type |-> "room_error"])>>
                /\ UNCHANGED <<db, liveRooms>>]_vars

\* The sweeper has deleted one room and kept another, and a join_room has
\* been refused since.
C8_Witness ==
    /\ swept # {}
    /\ swept \cap (DOMAIN db \cup DOMAIN liveRooms) = {}
    /\ DOMAIN db # {}
    /\ \E c \in Conns : sent = <<Frame(c, [type |-> "room_error"])>>

\* C9: a create_room, join_room or reconnect of a connection that is already
\* master-active or player-active changes neither the Live Registry, the
\* Durable Store nor the connection's binding.
C9_BindingCommandsAnonymousOnly ==
    [][\A c \in Conns :
          (/\ conns[c].role \in {"master", "player"}
           /\ \/ \E m \in MasterNames \cup {NoName}, s \in SessionNames \cup {NoName},
                    code \in Codes : CreateRoom(c, m, s, code)
              \/ \E n \in Names \cup {NoName}, r \in RawCodes : JoinRoom(c, n, r)
              \/ \E role \in Roles, n \in MasterNames, r \in RawCodes :
                    Reconnect(c, role, n, r))
          => /\ UNCHANGED <<liveRooms, db>>
             /\ conns'[c] = conns[c]]_vars

\* The Live Registry slots that refer to connection c.
Slots(c) ==
    {<<code, "master", NoId>> :
       code \in {k \in DOMAIN liveRooms : liveRooms[k].masterWs = c}}
    \cup UNION {{<<code, "player", id>> :
                   id \in {i \in DOMAIN liveRooms[code].players :
                             liveRooms[code].players[i].ws = c}} :
                code \in DOMAIN liveRooms}

\* C10: every connection is referred to by at most one slot of the Live
\* Registry, and that slot's room and participant id are the connection's own
\* _roomCode and _playerId.
C10_OneSlotPerConnection ==
    \A c \in Conns :
        /\ Cardinality(Slots(c)) <= 1
        /\ \A sl \in Slots(c) :
              /\ sl[1] = conns[c].roomCode
              /\ sl[2] = "player" => sl[3] = conns[c].playerId

\* The store with every payload blanked: its rooms, their attributes and
\* their participants.
Structure(rooms) ==
    [code \in DOMAIN rooms |->
       [rooms[code] EXCEPT !.players =
          [id \in DOMAIN rooms[code].players |->
             [rooms[code].players[id] EXCEPT !.fichaData = EmptyFicha]]]]

\* A create_room (resp. join_room) that the handler carries out to its end.
CreateCompletes ==
    /\ "room_created" \in Types(sent')
    /\ \E c \in Conns, m \in MasterNames, s \in SessionNames, code \in Codes :
          CreateRoom(c, m, s, code)
JoinCompletes ==
    /\ nextId' # nextId
    /\ \E c \in Conns, n \in Names, r \in RawCodes : JoinRoom(c, n, r)

\* C11: when a create_room or a join_room completes, the file equals the
\* in-memory Durable Store; the file and the store always hold the same rooms
\* and participants and differ at most in payloads, so a restart reloads every
\* room and participant and loses only the payloads written since the last
\* flush, and nothing right after a flush.
C11_StructuralWritesFlushed ==
    [][/\ (CreateCompletes \/ JoinCompletes) => disk' = db'
       /\ Structure(disk') = Structure(db')
       /\ Restart => Structure(db') = Structure(db)
       /\ Flush => disk' = db]_vars

\* The process has restarted with a room that has a participant, whose
\* payload written before the restart was flushed.
C11_Witness ==
    /\ liveRooms = Empty
    /\ \A c \in Conns : conns[c].state = "free"
    /\ \E code \in DOMAIN db : \E id \in DOMAIN db[code].players :
          db[code].players[id].fichaData # EmptyFicha

\* Connection c is the open connection bound as player to participant id of
\* room code, and the step is its ficha_data with payload x.
OwnFichaData(code, id, x) ==
    \E c \in Conns :
        /\ conns[c].role = "player"
        /\ conns[c].roomCode = code
        /\ conns[c].playerId = id
        /\ x \in Fichas
        /\ FichaData(c, x)

\* C12: while the process runs, the payload of a participant in the Live
\* Registry or in the Durable Store changes only in a ficha_data of the
\* connection bound to that participant id, to the payload of that message;
\* and a ficha_data of a connection that is not player-active (its role is not
\* player, or it has no room, or its room has no live entry) changes no state
\* and sends nothing.  (A restart reloads the store from the file; what it
\* loses is the subject of C11.)
C12_PayloadOwnedByParticipant ==
    [][/\ ~Restart =>
             /\ \A code \in DOMAIN db \cap DOMAIN db' :
                   \A id \in DOMAIN db[code].players \cap DOMAIN db'[code].players :
                      db'[code].players[id].fichaData # db[code].players[id].fichaData
                      => OwnFichaData(code, id, db'[code].players[id].fichaData)
             /\ \A code \in DOMAIN liveRooms \cap DOMAIN liveRooms' :
                   \A id \in DOMAIN liveRooms[code].players
                             \cap DOMAIN liveRooms'[code].players :
                      liveRooms'[code].players[id].fichaData
                         # liveRooms[code].players[id].fichaData
                      => OwnFichaData(code, id, liveRooms'[code].players[id].fichaData)
       /\ \A c \in Conns, f \in Fichas :
             (/\ \/ conns[c].role # "player"
                 \/ conns[c].roomCode = NoCode
                 \/ conns[c].roomCode \notin DOMAIN liveRooms
              /\ FichaData(c, f))
             => /\ sent' = <<>>
                /\ UNCHANGED <<db, disk, liveRooms, conns, nextId>>]_vars

\* A participant's own ficha_data has just replaced its payload in both
\* stores, next to another participant of the room whose payload it left.
C12_Witness ==
    \E c \in Conns :
        /\ conns[c].role = "player"
        /\ conns[c].roomCode \in DOMAIN liveRooms \cap DOMAIN db
        /\ LET code == conns[c].roomCode
               id == conns[c].playerId
           IN /\ id \in DOMAIN liveRooms[code].players \cap DOMAIN db[code].players
              /\ liveRooms[code].players[id].fichaData # EmptyFicha
              /\ db[code].players[id].fichaData # EmptyFicha
              /\ \E j \in DOMAIN db[code].players :
                    j # id /\ db[code].players[j].fichaData = EmptyFicha

\* C13: for every participant id that a room has both in the Live Registry
\* and in the Durable Store the two payloads are equal; and a ficha_data with
\* payload X of an active player (an open connection bound as player to a
\* participant of a live room) makes X that participant's payload in the Live
\* Registry and in the Durable Store and sends ficha_update{playerId, X} to
\* every current master connection of the room (the connections bound as its
\* master that no later master has superseded) and nothing else to anyone but
\* the room's master reference.
C13_WriteThroughAndForward ==
    [][/\ \A code \in DOMAIN liveRooms' \cap DOMAIN db' :
             \A id \in DOMAIN liveRooms'[code].players \cap DOMAIN db'[code].players :
                liveRooms'[code].players[id].fichaData = db'[code].players[id].fichaData
       /\ \A c \in Conns, x \in Fichas :
             LET code == conns[c].roomCode
                 id == conns[c].playerId
                 update == [type |-> "ficha_update", playerId |-> id, fichaData |-> x]
             IN (/\ conns[c].role = "player"
                 /\ code \in DOMAIN liveRooms
                 /\ id \in DOMAIN liveRooms[code].players
                 /\ FichaData(c, x))
                => /\ liveRooms'[code].players[id].fichaData = x
                   /\ code \in DOMAIN db'
                   /\ id \in DOMAIN db'[code].players
                   /\ db'[code].players[id].fichaData = x
                   /\ \A i \in 1..Len(sent') :
                         /\ sent'[i].msg = update
                         /\ sent'[i].to \in MasterConns(code)
                                            \cup {liveRooms[code].masterWs}
                   /\ \A m \in MasterConns(code) : update \in FramesTo(sent', m)]_vars

\* C14: a request_ficha{playerId} of a master-active connection (its role is
\* master and its room has a live entry) sends exactly one message: send_ficha
\* to the target participant's connection if that participant has an open
\* connection, otherwise ficha_update to the requester with the Durable
\* Store's payload for the id, or the empty payload if the id has no durable
\* record.  A request_ficha of any other connection sends nothing.  No
\* request_ficha changes any state.
C14_RequestFichaOneAnswer ==
    [][\A c \in Conns, id \in 1..MaxIds :
          LET code == conns[c].roomCode
              active == /\ conns[c].role = "master"
                        /\ code \in DOMAIN liveRooms
              target == IF active /\ id \in DOMAIN liveRooms[code].players
                        THEN liveRooms[code].players[id].ws ELSE NoConn
              durable == IF active /\ code \in DOMAIN db
                            /\ id \in DOMAIN db[code].players
                         THEN db[code].players[id].fichaData ELSE EmptyFicha
          IN RequestFicha(c, id)
             => /\ UNCHANGED <<db, disk, liveRooms, conns, nextId>>
                /\ sent' = IF ~active THEN <<>>
                           ELSE IF target # NoConn /\ conns[target].state = "open"
                           THEN <<Frame(target, [type |-> "send_ficha"])>>
                           ELSE <<Frame(c, [type |-> "ficha_update", playerId |-> id,
                                            fichaData |-> durable])>>]_vars

\* A master has just been answered from the Durable Store with the payload
\* of a participant whose connection is gone.
C14_Witness ==
    \E c \in Conns, id \in 1..MaxIds :
        /\ conns[c].role = "master"
        /\ conns[c].roomCode \in DOMAIN liveRooms \cap DOMAIN db
        /\ id \in DOMAIN liveRooms[conns[c].roomCode].players
        /\ liveRooms[conns[c].roomCode].players[id].ws = NoConn
        /\ id \in DOMAIN db[conns[c].roomCode].players
        /\ db[conns[c].roomCode].players[id].fichaData # EmptyFicha
        /\ sent = <<Frame(c, [type |-> "ficha_update", playerId |-> id,
                              fichaData |-> db[conns[c].roomCode].players[id].fichaData])>>

\* The step is a create_room that assigns `code`.
CreatesRoom(code) ==
    /\ "room_created" \in Types(sent')
    /\ \E c \in Conns, m \in MasterNames, s \in SessionNames : CreateRoom(c, m, s, code)

\* C15: in every step the set of participant ids that the Durable Store holds
\* for a room keeps every id it had, unless the step is the sweeper deleting
\* the room or a create_room assigning the room's code again; and a room
\* leaves the Durable Store in a sweeper step only.
C15_DurableParticipantsKept ==
    [][\A code \in DOMAIN db :
          IF code \in DOMAIN db'
          THEN \/ DOMAIN db[code].players \subseteq DOMAIN db'[code].players
               \/ CreatesRoom(code)
          ELSE Sweep]_vars

\* A room holds two durable participants while its connections have closed.
C15_Witness ==
    /\ \E code \in DOMAIN db \cap DOMAIN liveRooms :
          /\ Cardinality(DOMAIN db[code].players) = 2
          /\ \A id \in DOMAIN liveRooms[code].players :
                liveRooms[code].players[id].ws = NoConn
    /\ \A c \in Conns : conns[c].state # "open"

\* The open connections that room `code` of the registry `live` refers to.
OpenRefs(live, code) ==
    {d \in Conns : /\ conns'[d].state = "open"
                   /\ \/ live[code].masterWs = d
                      \/ \E j \in DOMAIN live[code].players : live[code].players[j].ws = d}

\* C16: the close handler of a connection leaves the Durable Store as it is,
\* removes no room and no participant from the Live Registry and changes no
\* participant's name or payload; when the connection is bound as player to a
\* live participant, that participant's connection becomes absent and every
\* open connection of the room is sent a players_update that lists the
\* participant as offline, and nothing else is sent; and a join_room to a live
\* room lists every participant the live room had in its players_update.
C16_CloseOnlyClearsReference ==
    [][/\ \A c \in Conns :
             LET code == conns[c].roomCode
                 id == conns[c].playerId
             IN HandleDisconnect(c)
                => /\ db' = db
                   /\ disk' = disk
                   /\ DOMAIN liveRooms' = DOMAIN liveRooms
                   /\ \A k \in DOMAIN liveRooms :
                         /\ DOMAIN liveRooms'[k].players = DOMAIN liveRooms[k].players
                         /\ \A j \in DOMAIN liveRooms[k].players :
                               /\ liveRooms'[k].players[j].name
                                     = liveRooms[k].players[j].name
                               /\ liveRooms'[k].players[j].fichaData
                                     = liveRooms[k].players[j].fichaData
                               /\ liveRooms'[k].players[j].ws
                                     \in {liveRooms[k].players[j].ws, NoConn}
                   /\ (/\ conns[c].role = "player"
                       /\ code \in DOMAIN liveRooms
                       /\ id \in DOMAIN liveRooms[code].players)
                      => /\ liveRooms'[code].players[id].ws = NoConn
                         /\ \A i \in 1..Len(sent') :
                               /\ sent'[i].msg.type = "players_update"
                               /\ id \in DOMAIN sent'[i].msg.players
                               /\ ~sent'[i].msg.players[id].online
                               /\ DOMAIN sent'[i].msg.players
                                     = DOMAIN liveRooms[code].players
                         /\ \A d \in OpenRefs(liveRooms', code) :
                               FramesTo(sent', d) # {}
       /\ \A c \in Conns, n \in Names, r \in RawCodes :
             (/\ nextId' # nextId
              /\ r.base \in DOMAIN liveRooms
              /\ JoinRoom(c, n, r))
             => /\ PlayerUpdates(sent') # {}
                /\ \A u \in PlayerUpdates(sent') :
                      DOMAIN liveRooms[r.base].players \subseteq DOMAIN u.msg.players]_vars

\* A player connection has closed beside an open connection of its room, which
\* has been told that the participant is offline.
C16_Witness ==
    \E code \in DOMAIN liveRooms, id \in 1..MaxIds, d \in Conns :
        /\ id \in DOMAIN liveRooms[code].players
        /\ liveRooms[code].players[id].ws = NoConn
        /\ conns[d].state = "open"
        /\ Len(sent) > 0
        /\ \A i \in 1..Len(sent) :
              /\ sent[i].to = d
              /\ sent[i].msg.type = "players_update"
              /\ id \in DOMAIN sent[i].msg.players
              /\ ~sent[i].msg.players[id].online

\* C17: a keepalive check closes exactly the open connections whose flag is
\* not fresh and clears the flag of the others, which stay open; a liveness
\* acknowledgment sets the connection's flag and changes nothing else; and
\* under a fair timer an open connection whose flag is not fresh is
\* acknowledged or leaves the open state, and the close handler of a
\* connection that has left the open state runs.
C17_MonitorClosesSilentConnections ==
    /\ [][/\ Keepalive =>
                \A c \in Conns :
                   conns[c].state = "open"
                   => IF conns[c].alive
                      THEN conns'[c] = [conns[c] EXCEPT !.alive = FALSE]
                      ELSE conns'[c] = [conns[c] EXCEPT !.state = "closing"]
          /\ \A c \in Conns :
                Pong(c) => /\ conns' = [conns EXCEPT ![c].alive = TRUE]
                           /\ sent' = <<>>
                           /\ UNCHANGED <<db, disk, liveRooms, nextId>>]_vars
    /\ \A c \in Conns :
          /\ (conns[c].state = "open" /\ ~conns[c].alive)
                ~> (conns[c].state # "open" \/ conns[c].alive)
          /\ (conns[c].state = "closing") ~> (conns[c].state # "closing")

\* The monitor has closed a bound connection that stayed silent while
\* another connection is open and fresh.
C17_Witness ==
    \E c, d \in Conns :
        /\ conns[c].state = "closing"
        /\ ~conns[c].alive
        /\ conns[c].role # NoRole
        /\ conns[d].state = "open"
        /\ conns[d].alive

\* C18: the retry loop of create_room ends, after at most 20 draws, and with
\* a code of the Durable Store only after exactly 20 draws; a create_room
\* adds its code to the Durable Store, replaces an existing room only by such
\* a run, and leaves every other room of the Durable Store and of the Live
\* Registry as it was (the store maps each code to one room).
C18_CreateRoomBoundedRetry ==
    /\ [](/\ genCodeRuns(db, 0) # {}
          /\ \A p \in genCodeRuns(db, 0) :
                /\ p[2] \in 1..20
                /\ p[1] \in DOMAIN db => p[2] = 20)
    /\ [][\A code \in Codes :
             CreatesRoom(code)
             => /\ DOMAIN db' = DOMAIN db \cup {code}
                /\ code \in DOMAIN db => <<code, 20>> \in genCodeRuns(db, 0)
                /\ \A k \in DOMAIN db \ {code} : db'[k] = db[k]
                /\ \A k \in DOMAIN liveRooms \ {code} :
                      k \in DOMAIN liveRooms' /\ liveRooms'[k] = liveRooms[k]]_vars

\* A create_room has just replaced a room that had a participant: both codes
\* are taken, an id was handed out, and no room holds it although the sweeper
\* has deleted nothing.
C18_Witness ==
    /\ DOMAIN db = Codes
    /\ nextId > 0
    /\ swept = {}
    /\ \A code \in DOMAIN db : db[code].players = Empty
    /\ "room_created" \in Types(sent)

\* The step sends nothing and leaves both stores, the file and every
\* connection (its state and its binding) as they were.
Ignored ==
    /\ sent' = <<>>
    /\ UNCHANGED <<db, disk, liveRooms, conns, nextId>>

\* C19: a create_room without masterName or sessionName, a join_room without
\* playerName or roomCode, a reconnect whose roomCode is missing or is the
\* code of no room of the Durable Store, and a message of unknown type send
\* nothing to anyone and change neither the stores nor any connection; the
\* sender stays open.  (Every step either is such a no-op or is none of these
\* commands.)
C19_InvalidCommandsIgnored ==
    [][\/ Ignored /\ \A c \in Conns : conns[c].state = "open" => conns'[c].state = "open"
       \/ \A c \in Conns :
             /\ \A m \in MasterNames \cup {NoName}, s \in SessionNames \cup {NoName},
                   code \in Codes :
                   ~((m = NoName \/ s = NoName) /\ CreateRoom(c, m, s, code))
             /\ \A n \in Names \cup {NoName}, r \in RawCodes :
                   ~((n = NoName \/ r = Missing) /\ JoinRoom(c, n, r))
             /\ \A role \in Roles, n \in MasterNames, r \in RawCodes :
                   ~((r = Missing \/ r.base \notin DOMAIN db)
                     /\ Reconnect(c, role, n, r))
             /\ ~OtherMsg(c)]_vars

\* A bound connection is still open after an event that sent nothing, beside
\* an anonymous connection that is still anonymous.
C19_Witness ==
    /\ sent = <<>>
    /\ db # Empty
    /\ \E c, d \in Conns :
          /\ conns[c].state = "open" /\ conns[c].role = "player"
          /\ conns[d].state = "open" /\ conns[d].role = NoRole

\* C20: once the close handler of a connection has run, no slot of the Live
\* Registry (no room's master reference, no participant's connection) refers
\* to that connection.
C20_NoReferenceAfterClose ==
    \A c \in Conns : conns[c].state = "closed" => ~Referenced(c, liveRooms)

====
